---- MODULE Spec2Model ----
(***************************************************************************)
(* Device protocol engine of the Novation Launchkey Mk3 control surface:   *)
(* the connection state machine (port_connection_handler), the device      *)
(* identification handshake (handle_midi_sysex) and the DAW-mode           *)
(* enter/exit commands (start_midi_handling / stop_midi_handling).         *)
(*                                                                         *)
(* A C++ buffer offset buf[k] is written B(buf, k); TLA+ sequences start   *)
(* at 1.  Bytes are written in decimal with the hex value in a comment.    *)
(***************************************************************************)
EXTENDS Integers, Sequences, FiniteSets, TLC

VARIABLES
    connection_state,    \* int bitset of InputConnected | OutputConnected
    device_active,       \* bool
    in_daw_mode,         \* bool
    has_faders,          \* bool
    current_pad_mode,    \* LkPadMode
    current_pot_mode,    \* LkPotMode
    current_fader_mode,  \* LkFaderMode
    ports_registered,    \* _input_port and _output_port are non-null
    crashed,             \* a send through a released (null) _output_port happened
    output,              \* every message written to _output_port, in order
    last,                \* the handler that ran last, its input and the state it started from
    \* one RangeControllableSet and the session it enumerates
    _faders,             \* const bool: a set of faders (true) or of pots (false)
    _current_mode,       \* ControllableMode, stored as its integer value
    controllables,       \* vector of AutomationControl handles, NoHandle for a null entry
    provider,            \* the session's tracks, controls and plugin, by configuration name
    touched,             \* handles the set has called start_touch on and not stop_touch since
    bank_last,           \* the receiver that ran last, its message and the calls it made
    \* the audio engine's port graph
    connections,         \* how many connections each of the two owned ports has
    \* one RangeControllable, the helper for a single pot or fader
    _cc,                          \* uint8_t: which CC this controllable reacts to
    _fader,                       \* bool: a fader (true) or a pot (false)
    controllable_mode_connection, \* the slot connected to new_value_received, "none" if disconnected
    controllable_last             \* the message midi_cc_receiver ran on last and what it did

SessionVars == <<connection_state, device_active, in_daw_mode, has_faders,
                 current_pad_mode, current_pot_mode, current_fader_mode,
                 ports_registered, crashed, output, last>>

BankVars == <<_faders, _current_mode, controllables, provider, touched, bank_last>>

EngineVars == <<connections>>

ControllableVars == <<_cc, _fader, controllable_mode_connection, controllable_last>>

vars == <<SessionVars, BankVars, EngineVars, ControllableVars>>

----------------------------------------------------------------------------
(* Bounds *)

\* messages the output log can hold; a handler that would exceed it is not run
MaxSent == 5

----------------------------------------------------------------------------
(* enum ConnectionState *)

InputConnected == 1
OutputConnected == 2

\* bit is a power of two
HasBit(cs, bit) == (cs \div bit) % 2 = 1

\* cs |= bit
SetBit(cs, bit) == IF HasBit(cs, bit) THEN cs ELSE cs + bit

\* cs &= ~bit
ClearBit(cs, bit) == IF HasBit(cs, bit) THEN cs - bit ELSE cs

\* the test with | in place of &: either port connected
BothConnected_Either(cs) == HasBit(cs, InputConnected) \/ HasBit(cs, OutputConnected)

\* (connection_state & (InputConnected|OutputConnected)) == (InputConnected|OutputConnected)
BothConnected(cs) == HasBit(cs, InputConnected) /\ HasBit(cs, OutputConnected)

----------------------------------------------------------------------------
(* Messages written by the surface *)

DeviceInquiry == <<240, 126, 127, 6, 1, 247>>   \* F0 7E 7F 06 01 F7
DawModeOn == <<159, 12, 127>>                   \* 9F 0C 7F
PickupOn == <<159, 10, 127>>                    \* 9F 0A 7F
DawModeOff == <<143, 12, 0>>                    \* 8F 0C 00
PickupOff == <<143, 10, 0>>                     \* 8F 0A 00

----------------------------------------------------------------------------
(* handle_midi_sysex: the envelope checks and the size switch *)

B(buf, k) == buf[k + 1]

\* the first if without its test of the sub-id byte [4]
IsIdentityReply_AnySubId(buf) ==
    /\ Len(buf) >= 5
    /\ B(buf, 0) = 240
    /\ B(buf, 1) = 126
    /\ B(buf, 3) = 6

\* first if: a system identification answer
IsIdentityReply(buf) ==
    /\ Len(buf) >= 5
    /\ B(buf, 0) = 240     \* 0xF0
    /\ B(buf, 1) = 126     \* 0x7E
    /\ B(buf, 3) = 6       \* 0x06
    /\ B(buf, 4) = 2       \* 0x02

\* the check with the two reserved bytes [10], [11] left out
IsLaunchkey_NoReserved(buf) ==
    /\ Len(buf) >= 17
    /\ B(buf, 5) = 0
    /\ B(buf, 6) = 32
    /\ B(buf, 7) = 41
    /\ B(buf, 16) = 247

\* the check with the mode indicator [9] required to be 1 (app)
IsLaunchkey_AppOnly(buf) ==
    /\ Len(buf) >= 17
    /\ B(buf, 5) = 0
    /\ B(buf, 6) = 32
    /\ B(buf, 7) = 41
    /\ B(buf, 9) = 1
    /\ B(buf, 10) = 0
    /\ B(buf, 11) = 0
    /\ B(buf, 16) = 247

\* second if: it is a launchkey
IsLaunchkey(buf) ==
    /\ Len(buf) >= 17
    /\ B(buf, 5) = 0       \* 0x00
    /\ B(buf, 6) = 32      \* 0x20
    /\ B(buf, 7) = 41      \* 0x29
    /\ B(buf, 10) = 0
    /\ B(buf, 11) = 0
    /\ B(buf, 16) = 247    \* 0xF7

\* the switch with the Launchkey 49 case setting has_faders = false
FadersOfSize_49Without(launchkeySize, old) ==
    CASE launchkeySize = 52 -> FALSE
      [] launchkeySize = 53 -> FALSE
      [] launchkeySize = 54 -> FALSE
      [] launchkeySize = 55 -> TRUE
      [] launchkeySize = 64 -> TRUE
      [] OTHER -> old

\* switch (launchkeySize): the new has_faders; no default case, so any other
\* size leaves has_faders as it was (old)
FadersOfSize(launchkeySize, old) ==
    CASE launchkeySize = 52 -> FALSE     \* 0x34, Launchkey 25
      [] launchkeySize = 53 -> FALSE     \* 0x35, Launchkey 37
      [] launchkeySize = 54 -> TRUE      \* 0x36, Launchkey 49
      [] launchkeySize = 55 -> TRUE      \* 0x37, Launchkey 61
      [] launchkeySize = 64 -> TRUE      \* 0x40, Launchkey 88
      [] OTHER -> old

\* the two send_midi calls of handle_midi_sysex, in program order
EnterCommands == <<DawModeOn, PickupOn>>

\* only the first of the two send_midi calls of stop_midi_handling
ExitCommands_DawModeOnly == <<DawModeOff>>

\* the two send_midi calls of stop_midi_handling, in program order
ExitCommands == <<DawModeOff, PickupOff>>

----------------------------------------------------------------------------
(* Inputs *)

\* size code byte [8]: the five known codes, and two codes outside the table
SizeCodes == {52, 53, 54, 55, 64, 51, 65}

\* device id byte [2], mode indicator byte [9] (1 = app, 0 = boot) and version
\* digits [12..15]: a base triple, each field changed alone, and all changed
Headers ==
    { <<127, 1, <<0, 1, 2, 3>> >>,
      <<0, 1, <<0, 1, 2, 3>> >>,
      <<127, 0, <<0, 1, 2, 3>> >>,
      <<127, 1, <<1, 0, 0, 9>> >>,
      <<0, 0, <<1, 0, 0, 9>> >> }

Reply(dev, size, mode, ver) ==
    <<240, 126, dev, 6, 2, 0, 32, 41, size, mode, 0, 0>> \o ver \o <<247>>

ValidReplies == {Reply(h[1], s, h[2], h[3]) : h \in Headers, s \in SizeCodes}

BaseReply == Reply(127, 54, 1, <<0, 1, 2, 3>>)

\* buf with the byte at C offset k replaced by b
WithByte(buf, k, b) == [buf EXCEPT ![k + 1] = b]

\* offsets the envelope checks read, each with one wrong byte
CheckedOffsets == {0, 1, 3, 4, 5, 6, 7, 10, 11, 16}

CorruptReplies == {WithByte(BaseReply, k, 1) : k \in CheckedOffsets}

\* replies cut short: 16 bytes (no F7 at [16]), 5 bytes, 4 bytes, empty
ShortReplies == {SubSeq(BaseReply, 1, n) : n \in {16, 5, 4, 0}}

\* an 18-byte reply with the right envelope in its first 17 bytes
LongReplies == {BaseReply \o <<247>>}

\* the identification request echoed back, and another vendor's identity reply
ForeignSysex == {DeviceInquiry, <<240, 126, 0, 6, 2, 0, 32, 107, 2, 0, 1, 0, 0, 1, 2, 3, 247>>}

SysexInputs == ValidReplies \cup CorruptReplies \cup ShortReplies \cup LongReplies \cup ForeignSysex

\* which of the surface's own ports a connection event names:
\* "both" is a connection between the surface's own input and output port
PortRoles == {"input", "output", "both", "other"}

----------------------------------------------------------------------------
(* The button handlers *)

\* status byte of a control change on MIDI channel 1 and on MIDI channel 16
ControllerOnChannel1 == 176     \* 0xB0
ControllerOnChannel16 == 191    \* 0xBF

\* a control change as the parser gets it: status, controller number, value
Controller(status, cc, val) == <<status, cc, val>>

IsController(buf) ==
    /\ Len(buf) = 3
    /\ buf[1] \in {ControllerOnChannel1, ControllerOnChannel16}

\* switch (tb->controller_number) of handle_midi_buttons_channel16: the action
\* handed to access_action; the cases 0x6A, 0x6B, 0x33, 0x34, 0x4A only break
ButtonAction16(cc) ==
    CASE cc = 103 -> "Editor/step-tracks-up"       \* 0x67 left arrow
      [] cc = 102 -> "Editor/step-tracks-down"     \* 0x66 right arrow
      [] cc = 75  -> "Editor/quantize"             \* 0x4B
      [] cc = 76  -> "Transport/ToggleClick"       \* 0x4C
      [] cc = 77  -> "Editor/Undo"                 \* 0x4D
      [] cc = 115 -> "Transport/Roll"              \* 0x73
      [] cc = 116 -> "Transport/Stop"              \* 0x74
      [] cc = 117 -> "Transport/Record"            \* 0x75
      [] cc = 118 -> "Transport/Loop"              \* 0x76
      [] OTHER -> "none"

\* the handler without the early return for a release
handle_midi_buttons_channel16_OnRelease(cc, val) == ButtonAction16(cc)

\* if (tb->value < 64) return; then the switch
handle_midi_buttons_channel16(cc, val) ==
    IF val < 64 THEN "none" ELSE ButtonAction16(cc)

\* the switch of the channel-1 handler has only cases that break
handle_midi_buttons_channel1(cc, val) == "none"

\* the parser raises channel_controller[0] or channel_controller[15]
ControllerAction(buf) ==
    IF buf[1] = ControllerOnChannel16
      THEN handle_midi_buttons_channel16(buf[2], buf[3])
      ELSE handle_midi_buttons_channel1(buf[2], buf[3])

\* control changes delivered while the whole surface runs: roll pressed and
\* released, the pot mode-select controller, the shift key on channel 1
ControllerInputs ==
    {Controller(ControllerOnChannel16, 115, 127), Controller(ControllerOnChannel16, 115, 0),
     Controller(ControllerOnChannel16, 9, 3), Controller(ControllerOnChannel1, 108, 127)}

----------------------------------------------------------------------------
(* RangeControllableSet: the session it enumerates *)

\* a null std::shared_ptr<AutomationControl>
NoHandle == <<"none", 0, 0>>

\* the AutomationControl objects of the session: a track's gain, pan azimuth and
\* send level controls, and the parameters of the first track's first plugin
Gain(i) == <<"gain", i, 0>>
Pan(i) == <<"pan", i, 0>>
Send(i, k) == <<"send", i, k>>
Param(j) == <<"param", 0, j>>

\* session configurations: an empty session, two tracks without a plugin, one
\* track with a plugin of two parameters, and nine tracks with a plugin of ten
\* parameters.  tracks: number of tracks; nopan: tracks whose
\* pan_azimuth_control() is null; sends: send_level_controllable(k) of track i
\* is non-null iff k < sends[i]; params: parameter_count() of the first track's
\* first plugin, -1 when nth_plugin(0) is null; badparams: the n for which c
\* stays null, because nth_parameter(n, ok) gives ok = false or because
\* proc->control (...) is not an AutomationControl
Sessions ==
    [none |-> [tracks |-> 0, nopan |-> {}, sends |-> <<>>, params |-> -1, badparams |-> {}],
     few  |-> [tracks |-> 2, nopan |-> {0}, sends |-> <<1, 2>>, params |-> -1, badparams |-> {}],
     small |-> [tracks |-> 1, nopan |-> {}, sends |-> <<0>>, params |-> 2, badparams |-> {}],
     many |-> [tracks |-> 9, nopan |-> {}, sends |-> <<2, 2, 2, 2, 2, 2, 2, 2, 2>>,
               params |-> 10, badparams |-> {0}]]

Providers == {"none", "few", "many"}

\* the same and a session of one track whose plugin has two parameters
DeviceSessions == Providers \cup {"small"}

\* _session.get_remote_nth_stripable (i, PresentationInfo::Track) is non-null
HasTrack(p, i) == i < Sessions[p].tracks

\* the cast alone, without the fallback for value 0
ModeOfValue_Raw(value) == value

\* (tb->value == 0) ? MODE_CUSTOM0 : static_cast<ControllableMode>(tb->value)
ModeOfValue(value) == IF value = 0 THEN 6 ELSE value

\* a switch whose custom modes keep the gain control of the track
TrackControl_CustomAsVolume(p, mode, i) ==
    CASE mode = 1 -> Gain(i)
      [] mode = 3 -> (IF i \in Sessions[p].nopan THEN NoHandle ELSE Pan(i))
      [] mode = 4 -> (IF 0 < Sessions[p].sends[i + 1] THEN Send(i, 0) ELSE NoHandle)
      [] mode = 5 -> (IF 1 < Sessions[p].sends[i + 1] THEN Send(i, 1) ELSE NoHandle)
      [] mode \in 6 .. 9 -> Gain(i)
      [] OTHER -> NoHandle

\* switch (_current_mode) for track i: the control c that is pushed back; the
\* custom modes, and a mode value without a case, leave c null
TrackControl(p, mode, i) ==
    CASE mode = 1 -> Gain(i)                                                  \* MODE_VOLUME
      [] mode = 3 -> (IF i \in Sessions[p].nopan THEN NoHandle ELSE Pan(i))   \* MODE_PAN
      [] mode = 4 -> (IF 0 < Sessions[p].sends[i + 1] THEN Send(i, 0) ELSE NoHandle)  \* MODE_SEND_A
      [] mode = 5 -> (IF 1 < Sessions[p].sends[i + 1] THEN Send(i, 1) ELSE NoHandle)  \* MODE_SEND_B
      [] OTHER -> NoHandle

\* std::min with its arguments taken for one another: the parameter count alone
Min_Second(a, b) == b

\* the loop without its limit of eight: one entry for every track
TrackLoop_AllTracks(p, mode, i, acc) ==
    [k \in 1 .. Sessions[p].tracks |-> TrackControl(p, mode, k - 1)]

\* a loop over all the controls of the set: nine positions for a set of faders
RECURSIVE TrackLoop_NineForFaders(_, _, _, _)
TrackLoop_NineForFaders(p, mode, i, acc) ==
    IF i < (IF _faders THEN 9 ELSE 8)
      THEN IF ~HasTrack(p, i)
             THEN acc
             ELSE TrackLoop_NineForFaders(p, mode, i + 1, Append(acc, TrackControl(p, mode, i)))
      ELSE acc

\* a loop that breaks at the first null control instead of the first missing track
RECURSIVE TrackLoop_StopAtNull(_, _, _, _)
TrackLoop_StopAtNull(p, mode, i, acc) ==
    IF i < 8
      THEN IF ~HasTrack(p, i) \/ TrackControl(p, mode, i) = NoHandle
             THEN acc
             ELSE TrackLoop_StopAtNull(p, mode, i + 1, Append(acc, TrackControl(p, mode, i)))
      ELSE acc

\* for (i = 0; i < 8; ++i): break at the first missing track
RECURSIVE TrackLoop(_, _, _, _)
TrackLoop(p, mode, i, acc) ==
    IF i < 8
      THEN IF ~HasTrack(p, i)
             THEN acc
             ELSE TrackLoop(p, mode, i + 1, Append(acc, TrackControl(p, mode, i)))
      ELSE acc

Min(a, b) == IF a < b THEN a ELSE b

\* the control of plugin parameter i: null when nth_parameter reports !ok or
\* the processor has no automation control for the parameter
ParamControl(p, i) == IF i \in Sessions[p].badparams THEN NoHandle ELSE Param(i)

\* for (i = 0; i < num_params; ++i)
RECURSIVE ParamLoop(_, _, _, _)
ParamLoop(p, num_params, i, acc) ==
    IF i < num_params
      THEN ParamLoop(p, num_params, i + 1, Append(acc, ParamControl(p, i)))
      ELSE acc

\* the MODE_DEVICE branch: first track, its first plugin, min(8u, parameter_count())
DeviceControls(p) ==
    IF ~HasTrack(p, 0) THEN <<>>
    ELSE IF Sessions[p].params < 0 THEN <<>>
    ELSE ParamLoop(p, Min(8, Sessions[p].params), 0, <<>>)

\* reassign_stripables: the new contents of controllables after clear()
Reassigned(p, mode) ==
    IF mode # 2 THEN TrackLoop(p, mode, 0, <<>>) ELSE DeviceControls(p)

\* one default mode for pots and faders alike
DefaultMode_Volume(faders) == 1

\* pots initialize in PAN mode, faders in VOLUME mode
DefaultMode(faders) == IF faders THEN 1 ELSE 3

\* _starting_cc (faders ? 0x35 : 0x15)
StartingCc(faders) == IF faders THEN 53 ELSE 21

\* a set that takes the mode-select controller of either set for its own
IsModeSelect_EitherController(faders, cc) == cc = 9 \/ cc = 10

\* the controller that announces a mode change: 0x09 for pots, 0x0A for faders
IsModeSelect(faders, cc) == (~faders /\ cc = 9) \/ (faders /\ cc = 10)

\* id >= 9 || (id >= 8 && !_faders): not our CC
OutOfRange(faders, id) == id >= 9 \/ (id >= 8 /\ ~faders)

\* the threshold taken to include 64
TouchOn_From64(value) == value >= 64

\* tb->value > 64
TouchOn(value) == value > 64

\* the raw value scaled by 128
Normalized_By128(value) == <<value, 128>>

\* double v = value / 127.0, kept as the fraction value/127
Normalized(value) == <<value, 127>>

\* controllables[id], for an id the guard id < controllables.size() admits
At(ctl, id) == ctl[id + 1]

\* the guard without the test for a null entry
IsBound_InRange(ctl, id) == id < Len(ctl)

\* id < controllables.size() && controllables[id]
IsBound(ctl, id) == id < Len(ctl) /\ At(ctl, id) # NoHandle

\* one call on an AutomationControl: start_touch (now), stop_touch (now), or
\* set_value (interface_to_internal (v), NoGroup) with v the fraction given
NoValue == <<0, 0>>
Call(fn, h, v, group) == [fn |-> fn, h |-> h, v |-> v, group |-> group]

\* what a receiver handed on: touch_event (id, on), new_value_received (id, value),
\* mode_switch (mode, passed in id), or nothing when it returned early
Dispatch(fn, id, on, value) == [fn |-> fn, id |-> id, on |-> on, value |-> value]
NoDispatch == Dispatch("none", 0, FALSE, 0)

\* RangeControllableSet::RangeControllableSet: mode_switch to the default mode
Constructed(faderChoices, sessionChoices) ==
    /\ _faders \in faderChoices
    /\ provider \in sessionChoices
    /\ _current_mode = DefaultMode(_faders)
    /\ controllables = Reassigned(provider, _current_mode)
    /\ touched = {}
    /\ bank_last = [op |-> "constructor", cc |-> 0, val |-> 0,
                    dispatch |-> Dispatch("mode_switch", DefaultMode(_faders), FALSE, 0),
                    calls |-> <<>>, was_touched |-> FALSE]

----------------------------------------------------------------------------
(* State *)

Snapshot ==
    [connection_state |-> connection_state,
     device_active |-> device_active,
     in_daw_mode |-> in_daw_mode,
     has_faders |-> has_faders,
     current_pad_mode |-> current_pad_mode,
     current_pot_mode |-> current_pot_mode,
     current_fader_mode |-> current_fader_mode,
     ports_registered |-> ports_registered]

\* the record of one handler run
\* op: the handler; buf: the sysex it was given; arg: the port role of a connection
\* event or the IOCondition of incoming data; yn: the event's connect flag;
\* hook: which of connected() / disconnected() it called; n0: Len(output) before it;
\* action: the action a button handler passed to access_action, "none" otherwise
Ran(op, buf, arg, yn, hook) ==
    [op |-> op, buf |-> buf, arg |-> arg, yn |-> yn, hook |-> hook,
     n0 |-> Len(output), pre |-> Snapshot, action |-> "none"]

\* the slot the constructor connects: pots initialize in PAN mode, faders in
\* VOLUME mode
InitialSlot(fader) == IF fader THEN "new_value_volume" ELSE "new_value_pan"

\* RangeControllable::RangeControllable (p, cc, fader)
RangeControllable_Constructed(ccChoices, faderChoices) ==
    /\ _cc \in ccChoices
    /\ _fader \in faderChoices
    /\ controllable_mode_connection = InitialSlot(_fader)
    /\ controllable_last = [op |-> "constructor", cc |-> 0, val |-> 0,
                            switch |-> "none", mode |-> 0,
                            emitted |-> FALSE, slot |-> "none"]

\* LaunchkeyMk3::LaunchkeyMk3 initialiser list, then init_ports
SurfaceInit ==
    /\ connection_state = 0
    /\ device_active = FALSE
    /\ in_daw_mode = FALSE
    /\ has_faders = FALSE
    /\ current_pad_mode = "SESSION"
    /\ current_pot_mode = "PAN"
    /\ current_fader_mode = "VOLUME"
    /\ ports_registered = TRUE
    /\ crashed = FALSE
    /\ output = <<>>
    /\ connections = [input |-> 0, output |-> 0]
    /\ last = [op |-> "constructor", buf |-> <<>>, arg |-> "other", yn |-> FALSE,
               hook |-> "none", n0 |-> 0, action |-> "none",
               pre |-> [connection_state |-> 0, device_active |-> FALSE,
                        in_daw_mode |-> FALSE, has_faders |-> FALSE,
                        current_pad_mode |-> "SESSION", current_pot_mode |-> "PAN",
                        current_fader_mode |-> "VOLUME", ports_registered |-> TRUE]]

\* the surface, and the helper of its first pot
SessionInit ==
    /\ SurfaceInit
    /\ RangeControllable_Constructed({21}, {FALSE})

\* the surface, and a set of pots constructed on the session with two tracks
\* or a set of faders constructed on the session with nine
Init ==
    /\ SessionInit
    /\ Constructed(BOOLEAN, {"few", "many"})
    /\ provider = (IF _faders THEN "many" ELSE "few")

\* the surface exists and has not crashed: no handler runs after a null
\* pointer access or after the destructor
Alive == ~crashed /\ last.op # "~LaunchkeyMk3"

\* the messages the last handler wrote
SentDuring == SubSeq(output, last.n0 + 1, Len(output))

----------------------------------------------------------------------------
(* Handlers *)

Modes == <<current_pad_mode, current_pot_mode, current_fader_mode>>

\* LaunchkeyMk3::connected: the body is empty
connected ==
    UNCHANGED <<in_daw_mode, has_faders, Modes, ports_registered, crashed, output>>

\* LaunchkeyMk3::disconnected: the body is empty
disconnected ==
    UNCHANGED <<in_daw_mode, has_faders, Modes, ports_registered, crashed, output>>

\* the if / else if / else on the two port names: the input port is tested first
NewConnectionState(cs, own, yn) ==
    IF own \in {"input", "both"}
      THEN (IF yn THEN SetBit(cs, InputConnected) ELSE ClearBit(cs, InputConnected))
      ELSE IF own = "output"
        THEN (IF yn THEN SetBit(cs, OutputConnected) ELSE ClearBit(cs, OutputConnected))
        ELSE cs

\* which of connected() / disconnected() a run of port_connection_handler calls
HookCalled(cs, active) ==
    IF BothConnected(cs) THEN "connected"
    ELSE IF active THEN "disconnected" ELSE "none"

port_connection_handler(own, yn) ==
    /\ Alive
    /\ UNCHANGED <<BankVars, ControllableVars>>
    /\ IF ~ports_registered \/ own = "other"
         THEN /\ last' = Ran("port_connection_handler", <<>>, own, yn, "none")
              /\ UNCHANGED <<connection_state, device_active, in_daw_mode, has_faders,
                             Modes, ports_registered, crashed, output>>
         ELSE LET cs == NewConnectionState(connection_state, own, yn) IN
              /\ connection_state' = cs
              /\ IF BothConnected(cs)
                   THEN connected
                   ELSE IF device_active
                     THEN disconnected
                     ELSE UNCHANGED <<in_daw_mode, has_faders, Modes,
                                      ports_registered, crashed, output>>
              /\ device_active' = BothConnected(cs)
              /\ last' = Ran("port_connection_handler", <<>>, own, yn,
                             HookCalled(cs, device_active))

\* both envelope ifs of handle_midi_sysex
SysexAccepted(buf) == IsIdentityReply(buf) /\ IsLaunchkey(buf)

\* a handler that answers only the first reply: nothing once in DAW mode
handle_midi_sysex_OnceOnly(buf) ==
    IF SysexAccepted(buf) /\ ~in_daw_mode
      THEN /\ has_faders' = FadersOfSize(B(buf, 8), has_faders)
           /\ output' = output \o EnterCommands
           /\ in_daw_mode' = TRUE
           /\ current_pad_mode' = "SESSION"
           /\ current_pot_mode' = "PAN"
           /\ current_fader_mode' = "VOLUME"
      ELSE UNCHANGED <<has_faders, output, in_daw_mode, Modes>>

\* handle_midi_sysex: no test of in_daw_mode, every accepted reply is answered
handle_midi_sysex(buf) ==
    IF SysexAccepted(buf)
      THEN /\ has_faders' = FadersOfSize(B(buf, 8), has_faders)
           /\ output' = output \o EnterCommands
           /\ in_daw_mode' = TRUE
           /\ current_pad_mode' = "SESSION"
           /\ current_pot_mode' = "PAN"
           /\ current_fader_mode' = "VOLUME"
      ELSE UNCHANGED <<has_faders, output, in_daw_mode, Modes>>

\* the data is cleared without port->parse when the surface is not active
Parsed_AlsoInactive(ioc) == ports_registered /\ ioc = "IO_IN"

\* the three ifs of handle_incoming_midi that lead to port->parse (now)
Parsed(ioc) == ports_registered /\ ioc = "IO_IN" /\ device_active

\* ioc is IO_IN or a closing condition; the parser hands a sysex to
\* handle_midi_sysex and a control change to a button handler
handle_incoming_midi(ioc, buf) ==
    /\ Alive
    /\ UNCHANGED <<BankVars, EngineVars, ControllableVars>>
    /\ (Parsed(ioc) /\ SysexAccepted(buf))
          => Len(output) + Len(EnterCommands) <= MaxSent
    /\ IF Parsed(ioc)
         THEN IF IsController(buf)
                THEN UNCHANGED <<has_faders, output, in_daw_mode, Modes>>
                ELSE handle_midi_sysex(buf)
         ELSE UNCHANGED <<has_faders, output, in_daw_mode, Modes>>
    /\ last' = [Ran("handle_incoming_midi", buf, ioc, FALSE, "none") EXCEPT
                   !.action = IF Parsed(ioc) /\ IsController(buf)
                                THEN ControllerAction(buf) ELSE "none"]
    /\ UNCHANGED <<connection_state, device_active, ports_registered, crashed>>

\* send_midi dereferences _output_port: with the ports released that is a null
\* pointer access, modelled as the crash it produces
start_midi_handling ==
    /\ Alive
    /\ UNCHANGED <<BankVars, EngineVars, ControllableVars>>
    /\ IF ports_registered
         THEN /\ Len(output) + 1 <= MaxSent
              /\ output' = Append(output, DeviceInquiry)
              /\ UNCHANGED crashed
         ELSE /\ crashed' = TRUE
              /\ UNCHANGED output
    /\ last' = Ran("start_midi_handling", <<>>, "other", FALSE, "none")
    /\ UNCHANGED <<connection_state, device_active, in_daw_mode, has_faders, Modes,
                   ports_registered>>

\* stop_midi_handling without the assignment in_daw_mode = false
stop_midi_handling_KeepsDawMode ==
    /\ Alive
    /\ UNCHANGED <<BankVars, EngineVars, ControllableVars>>
    /\ IF device_active /\ in_daw_mode
         THEN IF ports_registered
                THEN /\ Len(output) + Len(ExitCommands) <= MaxSent
                     /\ output' = output \o ExitCommands
                     /\ UNCHANGED <<crashed, in_daw_mode>>
                ELSE /\ crashed' = TRUE
                     /\ UNCHANGED <<output, in_daw_mode>>
         ELSE UNCHANGED <<output, in_daw_mode, crashed>>
    /\ last' = Ran("stop_midi_handling", <<>>, "other", FALSE, "none")
    /\ UNCHANGED <<connection_state, device_active, has_faders, Modes, ports_registered>>

\* the exit pair is written only from device_active and in_daw_mode
stop_midi_handling ==
    /\ Alive
    /\ UNCHANGED <<BankVars, EngineVars, ControllableVars>>
    /\ IF device_active /\ in_daw_mode
         THEN IF ports_registered
                THEN /\ Len(output) + Len(ExitCommands) <= MaxSent
                     /\ output' = output \o ExitCommands
                     /\ in_daw_mode' = FALSE
                     /\ UNCHANGED crashed
                ELSE /\ crashed' = TRUE
                     /\ UNCHANGED <<output, in_daw_mode>>
         ELSE UNCHANGED <<output, in_daw_mode, crashed>>
    /\ last' = Ran("stop_midi_handling", <<>>, "other", FALSE, "none")
    /\ UNCHANGED <<connection_state, device_active, has_faders, Modes, ports_registered>>

\* do_request with req->type == Quit: stop(), then disconnected()
do_request_Quit ==
    /\ Alive
    /\ UNCHANGED <<BankVars, EngineVars, ControllableVars>>
    /\ disconnected
    /\ last' = Ran("do_request", <<>>, "other", FALSE, "disconnected")
    /\ UNCHANGED <<connection_state, device_active>>

\* drain, unregister and reset both ports
release_ports ==
    /\ Alive
    /\ UNCHANGED <<BankVars, EngineVars, ControllableVars>>
    /\ IF ports_registered
         THEN /\ ports_registered' = FALSE
              /\ UNCHANGED crashed
         ELSE /\ crashed' = TRUE
              /\ UNCHANGED ports_registered
    /\ last' = Ran("release_ports", <<>>, "other", FALSE, "none")
    /\ UNCHANGED <<connection_state, device_active, in_daw_mode, has_faders, Modes, output>>

\* LaunchkeyMk3::~LaunchkeyMk3: stop(), which only quits the event loop, then
\* _output_port->drain, unregister_port on both ports and reset of both
\* pointers; with the ports already released the drain is a null pointer access
LaunchkeyMk3_Destructor ==
    /\ Alive
    /\ UNCHANGED <<BankVars, EngineVars, ControllableVars>>
    /\ IF ports_registered
         THEN /\ ports_registered' = FALSE
              /\ UNCHANGED crashed
         ELSE /\ crashed' = TRUE
              /\ UNCHANGED ports_registered
    /\ last' = Ran("~LaunchkeyMk3", <<>>, "other", FALSE, "none")
    /\ UNCHANGED <<connection_state, device_active, in_daw_mode, has_faders, Modes, output>>

PortEvent ==
    \E own \in PortRoles, yn \in BOOLEAN :
        port_connection_handler(own, yn) /\ UNCHANGED EngineVars

IncomingMidi ==
    \/ \E buf \in SysexInputs : handle_incoming_midi("IO_IN", buf)
    \/ \E buf \in ControllerInputs : handle_incoming_midi("IO_IN", buf)
    \/ handle_incoming_midi("IO_HUP", <<>>)

Next ==
    \/ PortEvent
    \/ IncomingMidi
    \/ start_midi_handling
    \/ stop_midi_handling
    \/ do_request_Quit
    \/ release_ports
    \/ LaunchkeyMk3_Destructor

Spec == Init /\ [][Next]_vars

----------------------------------------------------------------------------
(* The surface with every button of the keyboard *)

\* controller numbers sent: the buttons with an action, the buttons whose case
\* only breaks, the neighbours of both, the first and last pot and fader, the
\* mode-select controllers 0x03, 0x09, 0x0A, and the ends of the range
ButtonCcs ==
    {102, 103, 75, 76, 77, 115, 116, 117, 118} \cup {106, 107, 51, 52, 74}
        \cup {101, 104, 78, 114, 119} \cup {21, 28, 53, 61} \cup {3, 9, 10} \cup {0, 127}

\* released, just below and at the threshold, pressed
ButtonValues == {0, 63, 64, 127}

\* a control change from the keyboard on channel 1 or 16
ButtonMessage ==
    \E status \in {ControllerOnChannel1, ControllerOnChannel16},
       cc \in ButtonCcs, val \in ButtonValues :
        handle_incoming_midi("IO_IN", Controller(status, cc, val))

\* the identification reply of a Launchkey
IdentityMessage == handle_incoming_midi("IO_IN", BaseReply)

ButtonNext ==
    \/ PortEvent
    \/ IdentityMessage
    \/ ButtonMessage

ButtonSpec == Init /\ [][ButtonNext]_vars

----------------------------------------------------------------------------
(* RangeControllableSet: the receivers *)

\* at most this many controls are held touched at once
MaxTouched == 1

\* the controller numbers and values the device is made to send: around both
\* ends of the range of each set, and the two mode-select controllers
Ccs == {20, 21, 28, 29, 53, 60, 61, 62}
TouchValues == {0, 64, 65, 127}
Values == {0, 64, 127}
ModeValues == 0 .. 10

\* midi_cc_receiver_15: the early returns, then touch_event (id, tb->value > 64)
Dispatch15(faders, cc, val) ==
    IF cc < StartingCc(faders) THEN NoDispatch
    ELSE IF OutOfRange(faders, cc - StartingCc(faders)) THEN NoDispatch
    ELSE Dispatch("touch_event", cc - StartingCc(faders), TouchOn(val), 0)

\* midi_cc_receiver_16: mode change first, then the early returns, then
\* new_value_received (id, tb->value)
Dispatch16(faders, cc, val) ==
    IF IsModeSelect(faders, cc) THEN Dispatch("mode_switch", ModeOfValue(val), FALSE, 0)
    ELSE IF cc < StartingCc(faders) THEN NoDispatch
    ELSE IF OutOfRange(faders, cc - StartingCc(faders)) THEN NoDispatch
    ELSE Dispatch("new_value_received", cc - StartingCc(faders), FALSE, val)

\* touch_event that drops a touch-on for a control already touched
TouchCalls_Coalesced(ctl, id, on) ==
    IF IsBound(ctl, id) /\ ~(on /\ At(ctl, id) \in touched)
      THEN <<Call(IF on THEN "start_touch" ELSE "stop_touch", At(ctl, id), NoValue, "")>>
      ELSE <<>>

\* touch_event: start_touch or stop_touch on a bound control, else nothing
TouchCalls(ctl, id, on) ==
    IF IsBound(ctl, id)
      THEN <<Call(IF on THEN "start_touch" ELSE "stop_touch", At(ctl, id), NoValue, "")>>
      ELSE <<>>

\* new_value_received that starts a touch only on a control not yet touched
ValueCalls_OnlyIfUntouched(ctl, id, value) ==
    IF IsBound(ctl, id)
      THEN IF At(ctl, id) \in touched
             THEN <<Call("set_value", At(ctl, id), Normalized(value), "NoGroup")>>
             ELSE <<Call("start_touch", At(ctl, id), NoValue, ""),
                    Call("set_value", At(ctl, id), Normalized(value), "NoGroup")>>
      ELSE <<>>

\* new_value_received: start_touch, then set_value, on a bound control, else nothing
ValueCalls(ctl, id, value) ==
    IF IsBound(ctl, id)
      THEN <<Call("start_touch", At(ctl, id), NoValue, ""),
             Call("set_value", At(ctl, id), Normalized(value), "NoGroup")>>
      ELSE <<>>

\* the calls a dispatch makes on the controls
CallsOf(ctl, d) ==
    CASE d.fn = "touch_event" -> TouchCalls(ctl, d.id, d.on)
      [] d.fn = "new_value_received" -> ValueCalls(ctl, d.id, d.value)
      [] OTHER -> <<>>

\* the controls left touched after the calls were made in order
RECURSIVE TouchedAfter(_, _)
TouchedAfter(t, calls) ==
    IF calls = <<>> THEN t
    ELSE TouchedAfter(CASE Head(calls).fn = "start_touch" -> t \cup {Head(calls).h}
                        [] Head(calls).fn = "stop_touch" -> t \ {Head(calls).h}
                        [] OTHER -> t,
                      Tail(calls))

\* the control a dispatch addresses was held touched when the message arrived
WasTouched(ctl, d) ==
    /\ d.fn \in {"touch_event", "new_value_received"}
    /\ IsBound(ctl, d.id)
    /\ At(ctl, d.id) \in touched

\* a receiver run that looks the controls up again on every message
Received_Rebinding(op, cc, val, d) ==
    /\ UNCHANGED <<SessionVars, EngineVars, ControllableVars>>
    /\ UNCHANGED <<_faders, provider>>
    /\ touched' = TouchedAfter(touched, CallsOf(controllables, d))
    /\ Cardinality(touched') <= MaxTouched
    /\ IF d.fn = "mode_switch"
         THEN /\ _current_mode' = d.id
              /\ controllables' = Reassigned(provider, d.id)
         ELSE /\ UNCHANGED _current_mode
              /\ controllables' = Reassigned(provider, _current_mode)
    /\ bank_last' = [op |-> op, cc |-> cc, val |-> val, dispatch |-> d,
                     calls |-> CallsOf(controllables, d),
                     was_touched |-> WasTouched(controllables, d)]

\* one receiver run on one message
Received(op, cc, val, d) ==
    /\ UNCHANGED <<SessionVars, EngineVars, ControllableVars>>
    /\ UNCHANGED <<_faders, provider>>
    /\ touched' = TouchedAfter(touched, CallsOf(controllables, d))
    /\ Cardinality(touched') <= MaxTouched
    /\ IF d.fn = "mode_switch"
         THEN /\ _current_mode' = d.id
              /\ controllables' = Reassigned(provider, d.id)
         ELSE UNCHANGED <<_current_mode, controllables>>
    /\ bank_last' = [op |-> op, cc |-> cc, val |-> val, dispatch |-> d,
                     calls |-> CallsOf(controllables, d),
                     was_touched |-> WasTouched(controllables, d)]

midi_cc_receiver_15(cc, val) == Received("midi_cc_receiver_15", cc, val, Dispatch15(_faders, cc, val))

midi_cc_receiver_16(cc, val) == Received("midi_cc_receiver_16", cc, val, Dispatch16(_faders, cc, val))

\* a touch message on MIDI channel 15
TouchMessage == \E cc \in Ccs, val \in TouchValues : midi_cc_receiver_15(cc, val)

\* a value message on MIDI channel 16
ValueMessage == \E cc \in Ccs, val \in Values : midi_cc_receiver_16(cc, val)

\* a mode-select message on MIDI channel 16
ModeMessage == \E cc \in {9, 10}, val \in ModeValues : midi_cc_receiver_16(cc, val)

BankInit ==
    /\ SessionInit
    /\ Constructed(BOOLEAN, Providers)

BankNext ==
    \/ TouchMessage
    \/ ValueMessage
    \/ ModeMessage

BankSpec == BankInit /\ [][BankNext]_vars

----------------------------------------------------------------------------
(* A set of controls on a session that gains tracks *)

\* the session after the user added tracks, and a plugin with them
Grown(p) == IF p = "none" THEN "few" ELSE "many"

\* tracks are added to the session; nothing tells the set, which asks the
\* session only in reassign_stripables
TrackAdded ==
    /\ provider # "many"
    /\ provider' = Grown(provider)
    /\ UNCHANGED <<SessionVars, EngineVars, ControllableVars>>
    /\ UNCHANGED <<_faders, _current_mode, controllables, touched, bank_last>>

\* touch and value messages for the first and the eighth control of the set
FirstAndEighth == {StartingCc(_faders), StartingCc(_faders) + 7}

TouchFirstOrEighth ==
    \E cc \in FirstAndEighth, val \in {0, 127} : midi_cc_receiver_15(cc, val)

ValueFirstOrEighth ==
    \E cc \in FirstAndEighth, val \in {0, 127} : midi_cc_receiver_16(cc, val)

\* a mode-select message for the set: Volume, the device mode, Pan, Custom0
ModeSelected ==
    \E val \in {1, 2, 3, 6} : midi_cc_receiver_16(IF _faders THEN 10 ELSE 9, val)

RebindNext ==
    \/ TrackAdded
    \/ TouchFirstOrEighth
    \/ ValueFirstOrEighth
    \/ ModeSelected

RebindSpec == BankInit /\ [][RebindNext]_vars

----------------------------------------------------------------------------
(* A set of controls on sessions with and without a plugin *)

DeviceInit ==
    /\ SessionInit
    /\ Constructed(BOOLEAN, DeviceSessions)

DeviceNext ==
    \/ TouchFirstOrEighth
    \/ ValueFirstOrEighth
    \/ ModeSelected

DeviceSpec == DeviceInit /\ [][DeviceNext]_vars

----------------------------------------------------------------------------
(* What the claims speak about *)

\* the envelope as the wire format states it: F0 7E xx 06 02, signature 00 20 29
\* at [5..7], [10..11] = 00 00, [16] = F7, at least 17 bytes
EnvelopeOK(buf) ==
    /\ Len(buf) >= 17
    /\ buf[1] = 240 /\ buf[2] = 126 /\ buf[4] = 6 /\ buf[5] = 2
    /\ buf[6] = 0 /\ buf[7] = 32 /\ buf[8] = 41
    /\ buf[11] = 0 /\ buf[12] = 0
    /\ buf[17] = 247

\* the size-code table of the wire format
KnownSizes == {52, 53, 54, 55, 64}
TableHasFaders(size) == size \in {54, 55, 64}

EnterPair == << <<159, 12, 127>>, <<159, 10, 127>> >>
ExitPair == << <<143, 12, 0>>, <<143, 10, 0>> >>

\* the last handler was handle_incoming_midi
Incoming == last.op = "handle_incoming_midi"

\* ... and it handed its sysex to handle_midi_sysex
Processed ==
    /\ Incoming
    /\ last.arg = "IO_IN"
    /\ last.pre.device_active
    /\ last.pre.ports_registered

PortEventRan == last.op = "port_connection_handler"

\* a connection event on one of the surface's own ports that the handler acted on
OwnPortEventRan == PortEventRan /\ last.arg # "other" /\ last.pre.ports_registered

BothBits(cs) == cs = InputConnected + OutputConnected

\* C1: after any sequence of connection events device_active is true exactly
\* when both the InputConnected and the OutputConnected bit are set, whatever
\* the order of the two connect events.
C1_ActiveIffBothConnected ==
    device_active <=> (HasBit(connection_state, InputConnected)
                         /\ HasBit(connection_state, OutputConnected))

\* the output port connected first, the input port second, and the device is active
C1_Witness ==
    /\ OwnPortEventRan /\ last.arg = "input" /\ last.yn
    /\ last.pre.connection_state = OutputConnected
    /\ ~last.pre.device_active
    /\ device_active

\* C2: in every reachable state in_daw_mode implies device_active, also after
\* a disconnect that follows a successful identification.
C2_DawModeImpliesActive == in_daw_mode => device_active

\* C3: a reply that passes every envelope check and carries a known size code
\* sets has_faders to the table's entry and in_daw_mode to true, and writes
\* exactly 9F 0C 7F then 9F 0A 7F.
C3_KnownSizeActivates ==
    (Processed /\ EnvelopeOK(last.buf) /\ last.buf[9] \in KnownSizes) =>
        /\ has_faders = TableHasFaders(last.buf[9])
        /\ in_daw_mode
        /\ SentDuring = EnterPair

\* a Launchkey 49 reply processed while has_faders was false
C3_Witness ==
    /\ Processed /\ EnvelopeOK(last.buf) /\ last.buf[9] = 54
    /\ ~last.pre.has_faders /\ ~last.pre.in_daw_mode
    /\ has_faders /\ in_daw_mode

\* C4: a sysex failing any envelope check is dropped: nothing is sent and
\* in_daw_mode, has_faders, device_active and the three modes are unchanged.
C4_MalformedDropped ==
    (Incoming /\ ~EnvelopeOK(last.buf)) =>
        /\ SentDuring = <<>>
        /\ in_daw_mode = last.pre.in_daw_mode
        /\ has_faders = last.pre.has_faders
        /\ device_active = last.pre.device_active
        /\ current_pad_mode = last.pre.current_pad_mode
        /\ current_pot_mode = last.pre.current_pot_mode
        /\ current_fader_mode = last.pre.current_fader_mode

\* a reply with a wrong reserved byte [10] handed to handle_midi_sysex while active
C4_Witness ==
    /\ Processed
    /\ last.buf = WithByte(BaseReply, 10, 1)
    /\ ~in_daw_mode

\* C5: a disconnect event arriving while device_active and in_daw_mode are
\* true writes 8F 0C 00 then 8F 0A 00 as part of handling that event.
C5_ExitPairOnDisconnect ==
    (OwnPortEventRan /\ last.pre.device_active /\ last.pre.in_daw_mode /\ ~device_active) =>
        SentDuring = ExitPair

\* messages a step appends to the output
Appended == SubSeq(output', Len(output) + 1, Len(output'))

IsExitMessage(m) == m = <<143, 12, 0>> \/ m = <<143, 10, 0>>

\* C6: at most one exit pair per activation: a step writes exit messages only
\* as one whole pair, only from in_daw_mode and device_active, and leaves
\* in_daw_mode false; stop_midi_handling run twice in a row, and a connection
\* event or a Quit request while the device is inactive, write nothing.
C6_AtMostOneExitPair ==
    [][ /\ (\E i \in 1..Len(Appended) : IsExitMessage(Appended[i])) =>
              /\ Appended = ExitPair
              /\ device_active /\ in_daw_mode
              /\ ~in_daw_mode'
        /\ (last.op = "stop_midi_handling" /\ last'.op = "stop_midi_handling") =>
              output' = output
        /\ (~device_active /\ last'.op \in {"port_connection_handler", "do_request"}) =>
              output' = output ]_vars

\* stop_midi_handling ran right after the exit pair was written and wrote nothing
C6_Witness ==
    /\ last.op = "stop_midi_handling"
    /\ last.pre.device_active /\ ~last.pre.in_daw_mode
    /\ SentDuring = <<>>
    /\ Len(output) >= 4
    /\ SubSeq(output, Len(output) - 1, Len(output)) = ExitPair
    /\ SubSeq(output, Len(output) - 3, Len(output) - 2) = EnterPair

\* C7: the identification request is written exactly once for each transition
\* from 'not both connected' to 'both connected', and a connect event that
\* arrives with both ports already connected neither writes it nor runs
\* connected() again.
C7_InquiryOncePerActivation ==
    OwnPortEventRan =>
        IF BothBits(connection_state) /\ ~BothBits(last.pre.connection_state)
          THEN SentDuring = << <<240, 126, 127, 6, 1, 247>> >>
          ELSE /\ SentDuring = <<>>
               /\ BothBits(last.pre.connection_state) => last.hook # "connected"

\* C8: has_faders is false in every state where device_active is false.
C8_InactiveHasNoFaders == ~device_active => ~has_faders

\* C9: activation depends only on the envelope: every reply that passes it,
\* whatever its device id, size code, mode indicator and version digits,
\* writes the same enter pair and sets in_daw_mode.
C9_ActivationByEnvelope ==
    (Processed /\ EnvelopeOK(last.buf)) =>
        /\ in_daw_mode
        /\ SentDuring = EnterPair

\* a boot-mode reply with another device id, an unknown size and other digits
C9_Witness ==
    /\ Processed
    /\ last.buf = Reply(0, 51, 0, <<1, 0, 0, 9>>)
    /\ ~last.pre.in_daw_mode
    /\ in_daw_mode

\* C10: after a valid reply whose size code is outside the table has_faders
\* is false, also when an earlier reply had identified a model with faders.
C10_UnknownSizeNoFaders ==
    (Processed /\ EnvelopeOK(last.buf) /\ last.buf[9] \notin KnownSizes) => ~has_faders

----------------------------------------------------------------------------
(* The claims about a set of pots or faders *)

\* the number of controls of a set: 8 pots, or 8+1 faders
BankSize(faders) == IF faders THEN 9 ELSE 8

\* the nine modes of ControllableMode, by enum value
DefinedModes == 1 .. 9

\* the binding of index i: the handle stored there, none beyond the end
BindingAt(i) == IF i < Len(controllables) THEN controllables[i + 1] ELSE NoHandle

\* what the session answers for (mode, index), asked once: the control of
\* track index for the mode (none when the track is absent, the track has no
\* such control, or the mode is a custom one), and in the device mode the
\* control of parameter index of the first track's first plugin, for the first
\* min(8, parameter_count) parameters
ProviderAnswer(p, mode, i) ==
    IF mode = 2
      THEN IF /\ Sessions[p].tracks > 0
              /\ i < Sessions[p].params
              /\ i < 8
              /\ i \notin Sessions[p].badparams
             THEN <<"param", 0, i>>
             ELSE NoHandle
      ELSE IF i >= Sessions[p].tracks THEN NoHandle
           ELSE CASE mode = 1 -> <<"gain", i, 0>>
                  [] mode = 3 /\ i \notin Sessions[p].nopan -> <<"pan", i, 0>>
                  [] mode = 4 /\ Sessions[p].sends[i + 1] > 0 -> <<"send", i, 0>>
                  [] mode = 5 /\ Sessions[p].sends[i + 1] > 1 -> <<"send", i, 1>>
                  [] OTHER -> NoHandle

\* a mode switch was the last thing the set did (the constructor's included)
ModeSwitched == bank_last.dispatch.fn = "mode_switch"

\* C11: after mode_switch(M), for every index i in [0, bank_size) the binding
\* at i equals the provider's answer for (M, i): an index answered 'no handle'
\* is unbound, and a later index answered with a handle is bound whatever
\* gaps precede it.
C11_BindingsEqualAnswers ==
    (ModeSwitched /\ _current_mode \in DefinedModes) =>
        \A i \in 0 .. BankSize(_faders) - 1 :
            BindingAt(i) = ProviderAnswer(provider, _current_mode, i)

\* C12: after mode_switch(M) the touch state is empty: no handle that got
\* start_touch from this set, by a touch-on or by a value update, is still
\* touched without a matching stop_touch once the bindings are rebuilt.
C12_NoTouchAfterModeSwitch == ModeSwitched => touched = {}

\* C13: the set's mode is always one of the nine defined modes (enum values
\* 1..9), for every mode-select payload received on the value channel.
C13_ModeIsDefined == _current_mode \in DefinedModes

\* C14: the mode of a fader set is never Pan (enum value 3), whatever payload
\* the device sends on the fader set's mode-select controller 0x0A.
C14_FaderModeNeverPan == _faders => _current_mode # 3

\* the last message was a mode-select message for this set: on the value
\* channel, controller 0x09 for pots, 0x0A for faders
ModeSelectRan ==
    /\ bank_last.op = "midi_cc_receiver_16"
    /\ \/ ~_faders /\ bank_last.cc = 9
       \/ _faders /\ bank_last.cc = 10

AddressedBound ==
    /\ bank_last.dispatch.id < Len(controllables)
    /\ controllables[bank_last.dispatch.id + 1] # NoHandle

\* the handle the last message addressed
AddressedHandle == controllables[bank_last.dispatch.id + 1]

\* the last message was a value message, a touch message, for an index of the set
ValueRan == bank_last.dispatch.fn = "new_value_received"
TouchRan == bank_last.dispatch.fn = "touch_event"

\* how many of the calls the last message made were calls of fn
CountCalls(fn) ==
    Cardinality({k \in 1 .. Len(bank_last.calls) : bank_last.calls[k].fn = fn})

\* C16 as stated: a value message for a bound index calls start_touch only if
\* the index is not already touched, and writes the value exactly once.
C16_StartTouchOnlyIfUntouched ==
    (ValueRan /\ AddressedBound) =>
        /\ CountCalls("start_touch") = (IF bank_last.was_touched THEN 0 ELSE 1)
        /\ CountCalls("set_value") = 1

\* C16 amended: a value message for a bound index calls start_touch on its
\* handle once, already touched or not, and then writes the value exactly once.
C16_StartTouchOnEveryValue ==
    (ValueRan /\ AddressedBound) =>
        /\ Len(bank_last.calls) = 2
        /\ bank_last.calls[1].fn = "start_touch"
        /\ bank_last.calls[1].h = AddressedHandle
        /\ bank_last.calls[2].fn = "set_value"
        /\ bank_last.calls[2].h = AddressedHandle

\* a value message arrived for a control that was already touched, and
\* start_touch was called again before the write
C16_Witness ==
    /\ ValueRan
    /\ AddressedBound
    /\ bank_last.was_touched
    /\ CountCalls("start_touch") = 1
    /\ CountCalls("set_value") = 1

\* the message handled in this step is a value or touch message whose index
\* had no handle when it arrived: beyond the bindings, or a null entry
UnboundMessageStep ==
    /\ bank_last'.dispatch.fn \in {"new_value_received", "touch_event"}
    /\ \/ bank_last'.dispatch.id >= Len(controllables)
       \/ controllables[bank_last'.dispatch.id + 1] = NoHandle

\* C17: a value or touch message whose index has no bound handle calls no
\* start_touch, stop_touch or set_value on any handle and changes nothing of
\* the set: mode, bindings and touched controls stay as they were.
C17_UnboundIsNoOp ==
    [][UnboundMessageStep =>
          /\ bank_last'.calls = <<>>
          /\ UNCHANGED <<_faders, _current_mode, controllables, provider, touched>>]_vars

\* a value message arrived for an index whose entry is null, while another
\* control of the set was held touched, and no call was made
C17_Witness ==
    /\ ValueRan
    /\ bank_last.dispatch.id < Len(controllables)
    /\ controllables[bank_last.dispatch.id + 1] = NoHandle
    /\ bank_last.calls = <<>>
    /\ touched # {}

\* the last message came on the touch channel, MIDI channel 15
TouchChannelRan == bank_last.op = "midi_cc_receiver_15"

\* the controller of the last message less the set's base controller:
\* 0x15 for pots, 0x35 for faders
IndexOfCc == bank_last.cc - (IF _faders THEN 53 ELSE 21)

\* C18: on the touch channel a CC with controller c is a touch event for index
\* c - base iff 0 <= c - base < bank_size (8 pots, 9 faders); a value above 64
\* is touch-on and a value of 64 or less is touch-off; every other controller
\* is ignored by the set.
C18_TouchClassification ==
    TouchChannelRan =>
        IF IndexOfCc \in 0 .. BankSize(_faders) - 1
          THEN /\ bank_last.dispatch.fn = "touch_event"
               /\ bank_last.dispatch.id = IndexOfCc
               /\ bank_last.dispatch.on = (bank_last.val > 64)
          ELSE /\ bank_last.dispatch.fn = "none"
               /\ bank_last.calls = <<>>

\* a fader set got controller 0x3D, its ninth, with value exactly 64 and took
\* it as touch-off for index 8
C18_Witness ==
    /\ TouchChannelRan
    /\ _faders
    /\ bank_last.cc = 61
    /\ bank_last.val = 64
    /\ bank_last.dispatch.fn = "touch_event"
    /\ bank_last.dispatch.id = 8
    /\ ~bank_last.dispatch.on

\* the fraction <<num, den>> equals r / 127
IsOver127(v, r) == v[2] > 0 /\ v[1] * 127 = r * v[2]

\* the set_value calls the last message made
Writes == SelectSeq(bank_last.calls, LAMBDA c : c.fn = "set_value")

\* C19: the value written for a raw value r on a bound index is the handle's
\* interface-to-internal mapping of r / 127, written to that control alone:
\* r = 127 gives the normalized value 1.0 and r = 0 gives 0.0.
C19_WritesRawOver127 ==
    (ValueRan /\ AddressedBound) =>
        /\ Len(Writes) = 1
        /\ Writes[1].h = AddressedHandle
        /\ Writes[1].group = "NoGroup"
        /\ IsOver127(Writes[1].v, bank_last.val)
        /\ bank_last.val = 127 => Writes[1].v[1] = Writes[1].v[2]
        /\ bank_last.val = 0 => Writes[1].v[1] = 0

\* raw value 127 arrived for the bound eighth fader and 1.0 was handed to the
\* gain control's mapping
C19_Witness ==
    /\ ValueRan
    /\ AddressedBound
    /\ _faders
    /\ bank_last.dispatch.id = 7
    /\ bank_last.val = 127
    /\ Writes = <<[fn |-> "set_value", h |-> <<"gain", 7, 0>>, v |-> <<127, 127>>, group |-> "NoGroup"]>>

\* C20: the sets start in their default modes and the surface enters protocol
\* mode with the same defaults: a newly constructed pot set is in Pan (3) and
\* a newly constructed fader set in Volume (1), each with the bindings that
\* mode gives for the eight track positions, and after a valid identification
\* reply the surface's pot mode is PAN and its fader mode VOLUME.
C20_DefaultModes ==
    /\ bank_last.op = "constructor" =>
           /\ _current_mode = (IF _faders THEN 1 ELSE 3)
           /\ Len(controllables) <= 8
           /\ \A i \in 0 .. 7 :
                  BindingAt(i) = ProviderAnswer(provider, IF _faders THEN 1 ELSE 3, i)
    /\ (Processed /\ EnvelopeOK(last.buf)) =>
           /\ current_pot_mode = "PAN"
           /\ current_fader_mode = "VOLUME"

\* a valid reply was processed and DAW mode entered while the fader set was
\* as constructed: in Volume, bound to the gain controls of tracks 0..7
C20_Witness ==
    /\ Processed /\ EnvelopeOK(last.buf)
    /\ ~last.pre.in_daw_mode /\ in_daw_mode
    /\ current_pot_mode = "PAN" /\ current_fader_mode = "VOLUME"
    /\ bank_last.op = "constructor"
    /\ _faders
    /\ _current_mode = 1
    /\ controllables = [i \in 1 .. 8 |-> <<"gain", i - 1, 0>>]

----------------------------------------------------------------------------
(* The claims about teardown, buttons and the output sequence *)

\* the last thing that ran was the destructor
Destroyed == last.op = "~LaunchkeyMk3"

\* C21: destroying the surface while in_daw_mode is true attempts the exit
\* from DAW mode first: the destructor writes 8F 0C 00, 8F 0A 00 before the
\* output port is drained and unregistered.
C21_ExitPairBeforeRelease ==
    (Destroyed /\ last.pre.in_daw_mode /\ last.pre.device_active /\ last.pre.ports_registered) =>
        SentDuring = ExitPair

\* the table of button actions: controller number to action name
NamedAction(cc) ==
    CASE cc = 103 -> "Editor/step-tracks-up"
      [] cc = 102 -> "Editor/step-tracks-down"
      [] cc = 75  -> "Editor/quantize"
      [] cc = 76  -> "Transport/ToggleClick"
      [] cc = 77  -> "Editor/Undo"
      [] cc = 115 -> "Transport/Roll"
      [] cc = 116 -> "Transport/Stop"
      [] cc = 117 -> "Transport/Record"
      [] cc = 118 -> "Transport/Loop"
      [] OTHER -> "none"

\* this step hands a control change on channel 16 to the button dispatcher
ButtonStep ==
    /\ last'.op = "handle_incoming_midi"
    /\ last'.arg = "IO_IN"
    /\ Len(last'.buf) = 3
    /\ last'.buf[1] = 191
    /\ device_active
    /\ ports_registered

\* C22: the button dispatcher is stateless and table-driven: a CC on channel
\* 16 with value < 64 triggers no action, one with value >= 64 triggers the
\* one action the table names for its controller number and none for any
\* other controller (pots, faders and mode-select included), and the
\* dispatcher changes no state of the surface or of a set of controls.
C22_ButtonsTableDriven ==
    [][ButtonStep =>
          /\ last'.action = (IF last'.buf[3] < 64 THEN "none" ELSE NamedAction(last'.buf[2]))
          /\ UNCHANGED <<connection_state, device_active, in_daw_mode, has_faders,
                         current_pad_mode, current_pot_mode, current_fader_mode,
                         ports_registered, crashed, output>>
          /\ UNCHANGED <<_faders, _current_mode, controllables, provider, touched>>]_vars

\* in DAW mode the left arrow, controller 0x67, arrived with value exactly 64
\* and the dispatcher asked for step-tracks-up
C22_Witness ==
    /\ last.op = "handle_incoming_midi"
    /\ last.buf = <<191, 103, 64>>
    /\ last.pre.device_active
    /\ in_daw_mode
    /\ last.action = "Editor/step-tracks-up"

\* C23: in the sequence written to the output port every 9F 0C 7F is
\* immediately followed by 9F 0A 7F and every 8F 0C 00 by 8F 0A 00, under any
\* interleaving of connection events and incoming sysex: no command pair is
\* left partially sent.
C23_CommandPairsWhole ==
    \A k \in 1 .. Len(output) :
        /\ output[k] = <<159, 12, 127>> =>
               (k < Len(output) /\ output[k + 1] = <<159, 10, 127>>)
        /\ output[k] = <<143, 12, 0>> =>
               (k < Len(output) /\ output[k + 1] = <<143, 10, 0>>)

\* DAW mode was entered and left again, and then a connection of the surface
\* dropped: the output holds the enter pair and the exit pair, each whole
C23_Witness ==
    /\ output = << <<159, 12, 127>>, <<159, 10, 127>>, <<143, 12, 0>>, <<143, 10, 0>> >>
    /\ OwnPortEventRan
    /\ ~last.yn
    /\ last.pre.device_active
    /\ ~device_active

IsEnterMessage(m) == m = <<159, 12, 127>> \/ m = <<159, 10, 127>>

\* this step is handle_incoming_midi parsing a valid identification reply
\* while device_active is true
ValidReplyStep ==
    /\ last'.op = "handle_incoming_midi"
    /\ last'.arg = "IO_IN"
    /\ EnvelopeOK(last'.buf)
    /\ device_active

\* C24: no enter command is sent and in_daw_mode never becomes true except
\* by a valid identification reply parsed while device_active is true; without
\* such a reply the surface stays out of DAW mode, and the identification
\* request is written by start_midi_handling only, never by another handler.
C24_EnterOnlyByValidReply ==
    [][ /\ (\E i \in 1 .. Len(Appended) : IsEnterMessage(Appended[i])) => ValidReplyStep
        /\ (~in_daw_mode /\ in_daw_mode') => ValidReplyStep
        /\ (\E i \in 1 .. Len(Appended) : Appended[i] = <<240, 126, 127, 6, 1, 247>>) =>
              last'.op = "start_midi_handling" ]_vars

\* the request was written and then a valid reply, parsed while the device was
\* active, entered DAW mode
C24_Witness ==
    /\ Processed /\ EnvelopeOK(last.buf)
    /\ ~last.pre.in_daw_mode /\ in_daw_mode
    /\ output = << <<240, 126, 127, 6, 1, 247>>, <<159, 12, 127>>, <<159, 10, 127>> >>

\* the last thing that ran was the exit sequence or the teardown
ExitOrTeardownRan == last.op \in {"stop_midi_handling", "~LaunchkeyMk3"}

\* C25: the exit commands are never written to an output port that is gone:
\* when the exit sequence or the teardown runs with the ports released, or
\* with device_active false, nothing is sent and neither an error nor an
\* access to a released port happens.
C25_ExitSkippedWhenPortGone ==
    (ExitOrTeardownRan /\ (~last.pre.ports_registered \/ ~last.pre.device_active)) =>
        /\ SentDuring = <<>>
        /\ ~crashed

----------------------------------------------------------------------------
(* The claims about the bindings of a set *)

\* this step handles a mode-select message for the set by a mode switch
ModeSelectStep ==
    /\ bank_last'.op = "midi_cc_receiver_16"
    /\ bank_last'.cc = (IF _faders THEN 10 ELSE 9)
    /\ bank_last'.dispatch.fn = "mode_switch"

\* this step handles a touch or value message for an index of the set
IndexMessageStep ==
    /\ bank_last' # bank_last
    /\ bank_last'.dispatch.fn \in {"touch_event", "new_value_received"}

\* C26: the bindings and the mode of a set change only in a mode switch:
\* touch and value messages never add, remove or replace a binding, so an
\* index left unbound at the switch stays unbound until the next mode-select
\* message, also when the session could by then give a control for it.
C26_BindingsChangeOnlyInModeSwitch ==
    [][ /\ (controllables' # controllables \/ _current_mode' # _current_mode) =>
              ModeSelectStep
        /\ IndexMessageStep => UNCHANGED <<controllables, _current_mode>> ]_vars

\* the first control was unbound at the switch, the session has since gained
\* a track with a control for it, and a value message for it made no call
C26_Witness ==
    /\ ValueRan
    /\ bank_last.dispatch.id = 0
    /\ BindingAt(0) = NoHandle
    /\ ProviderAnswer(provider, _current_mode, 0) # NoHandle
    /\ bank_last.calls = <<>>

\* N = min(8, parameter_count) of the first track's first plugin, 0 when the
\* session has no track or the track no plugin
LeadingParams(p) ==
    IF Sessions[p].tracks = 0 \/ Sessions[p].params < 0 THEN 0
    ELSE IF Sessions[p].params < 8 THEN Sessions[p].params ELSE 8

\* a switch to the device mode (enum value 2) was the last thing the set did
DeviceModeSwitched == ModeSwitched /\ _current_mode = 2

\* C27 as stated: in the device mode the set binds exactly the N = min(8,
\* parameter_count) leading indices to the parameters 0..N-1 of the plugin and
\* every index >= N is unbound; without a track or a plugin all are unbound.
C27_LeadingParamsAllBound ==
    DeviceModeSwitched =>
        \A i \in 0 .. 8 :
            BindingAt(i) = (IF i < LeadingParams(provider) THEN <<"param", 0, i>> ELSE NoHandle)

\* C27 amended: in the device mode the set has exactly N entries; index i < N
\* is bound to parameter i when the plugin has a control for it and is unbound
\* when it has none; every index >= N is unbound; without a track or a plugin
\* the set has no entry.
C27_LeadingParamsBoundIfControl ==
    DeviceModeSwitched =>
        /\ Len(controllables) = LeadingParams(provider)
        /\ \A i \in 0 .. 8 :
               BindingAt(i) = (IF i < LeadingParams(provider) /\ i \notin Sessions[provider].badparams
                                 THEN <<"param", 0, i>> ELSE NoHandle)

\* the plugin has ten parameters and no control for the first: the set has
\* eight entries, the first null and the others the parameters 1..7
C27_Witness ==
    /\ DeviceModeSwitched
    /\ provider = "many"
    /\ Len(controllables) = 8
    /\ controllables[1] = NoHandle
    /\ \A i \in 1 .. 7 : controllables[i + 1] = <<"param", 0, i>>

\* C28: the bindings of a set never have more than 9 entries in any reachable
\* state, and never more than 8 for a pot set.
C28_BindingsLength ==
    /\ Len(controllables) <= 9
    /\ ~_faders => Len(controllables) <= 8

\* a pot set on the session with nine tracks was switched to Volume and has
\* eight entries, one for each of the first eight tracks
C28_Witness ==
    /\ ModeSelectRan
    /\ ~_faders
    /\ provider = "many"
    /\ _current_mode = 1
    /\ Len(controllables) = 8
    /\ controllables[8] = <<"gain", 7, 0>>

\* this step handles a touch message, a value message, for an index that has
\* a handle when the message arrives
BoundTouchStep ==
    /\ bank_last'.dispatch.fn = "touch_event"
    /\ bank_last'.dispatch.id < Len(controllables)
    /\ controllables[bank_last'.dispatch.id + 1] # NoHandle

BoundValueStep ==
    /\ bank_last'.dispatch.fn = "new_value_received"
    /\ bank_last'.dispatch.id < Len(controllables)
    /\ controllables[bank_last'.dispatch.id + 1] # NoHandle

\* the handle the message of this step addresses
StepHandle == controllables[bank_last'.dispatch.id + 1]

\* C29: messages are applied per index in arrival order and none is
\* coalesced: every touch message for a bound index makes exactly one
\* start_touch or stop_touch call and every value message for a bound index
\* exactly one set_value call, on that index's handle and while the message is
\* handled, so that each acts on the state the message before it left.
C29_EveryMessageApplied ==
    [][ /\ BoundTouchStep =>
              /\ bank_last'.calls =
                     << [fn |-> IF bank_last'.val > 64 THEN "start_touch" ELSE "stop_touch",
                         h |-> StepHandle, v |-> <<0, 0>>, group |-> ""] >>
              /\ touched' = (IF bank_last'.val > 64 THEN touched \cup {StepHandle}
                                                   ELSE touched \ {StepHandle})
        /\ BoundValueStep =>
              /\ Len(SelectSeq(bank_last'.calls, LAMBDA c : c.fn = "set_value")) = 1
              /\ bank_last'.calls[Len(bank_last'.calls)] =
                     [fn |-> "set_value", h |-> StepHandle,
                      v |-> <<bank_last'.val, 127>>, group |-> "NoGroup"]
              /\ \A k \in 1 .. Len(bank_last'.calls) : bank_last'.calls[k].h = StepHandle
              /\ touched' = touched \cup {StepHandle} ]_vars

\* a touch-off arrived for a control that an earlier message had left touched:
\* one stop_touch was made and the control is no longer touched
C29_Witness ==
    /\ TouchRan
    /\ AddressedBound
    /\ bank_last.was_touched
    /\ ~bank_last.dispatch.on
    /\ bank_last.calls = << [fn |-> "stop_touch", h |-> AddressedHandle, v |-> <<0, 0>>, group |-> ""] >>
    /\ AddressedHandle \notin touched

\* C30: while device_active is false incoming MIDI data is cleared without
\* being parsed: no sysex and no control change received in that state changes
\* in_daw_mode, has_faders or a pad, pot or fader mode, triggers a button
\* action, or has anything sent in response.
C30_InactiveIgnoresMidi ==
    (Incoming /\ ~last.pre.device_active) =>
        /\ SentDuring = <<>>
        /\ last.action = "none"
        /\ in_daw_mode = last.pre.in_daw_mode
        /\ has_faders = last.pre.has_faders
        /\ current_pad_mode = last.pre.current_pad_mode
        /\ current_pot_mode = last.pre.current_pot_mode
        /\ current_fader_mode = last.pre.current_fader_mode

\* only the input port was connected when the reply of a Launchkey arrived:
\* nothing was sent and DAW mode was not entered
C30_Witness ==
    /\ Incoming
    /\ last.arg = "IO_IN"
    /\ last.buf = BaseReply
    /\ last.pre.connection_state = 1
    /\ ~last.pre.device_active
    /\ ~in_daw_mode
    /\ output = <<>>

----------------------------------------------------------------------------
(* The surface on an engine whose port graph is kept *)

\* connections one owned port can have at once
MaxConnections == 2

OwnedPorts == {"input", "output"}

\* Port::connected () of an owned port
PortConnected(own) == connections[own] > 0

\* the engine made a connection to an owned port and emitted
\* PortConnectedOrDisconnected (..., true)
engine_connect(own) ==
    /\ connections[own] < MaxConnections
    /\ connections' = [connections EXCEPT ![own] = @ + 1]
    /\ port_connection_handler(own, TRUE)

\* the engine removed one connection of an owned port and emitted
\* PortConnectedOrDisconnected (..., false)
engine_disconnect(own) ==
    /\ connections[own] > 0
    /\ connections' = [connections EXCEPT ![own] = @ - 1]
    /\ port_connection_handler(own, FALSE)

\* a connection between two ports of other clients changed
engine_foreign(yn) ==
    /\ port_connection_handler("other", yn)
    /\ UNCHANGED EngineVars

\* connection_state after the connection handler ran for every port that
\* port_registration_handler connected: the input port first
StateAfterProbe(cs) ==
    LET cs1 == IF PortConnected("input") THEN cs
               ELSE NewConnectionState(cs, "input", TRUE)
    IN  IF PortConnected("output") THEN cs1
        ELSE NewConnectionState(cs1, "output", TRUE)

\* port_registration_handler: nothing without ports or with both ports
\* connected; else probe, and on success connect each port that has no
\* connection, which runs the connection handler for it in turn
port_registration_handler(probe) ==
    /\ Alive
    /\ UNCHANGED <<BankVars, ControllableVars>>
    /\ IF ports_registered /\ ~(PortConnected("input") /\ PortConnected("output")) /\ probe
         THEN /\ connections' = [own \in OwnedPorts |->
                                    IF PortConnected(own) THEN connections[own] ELSE 1]
              /\ connection_state' = StateAfterProbe(connection_state)
              /\ device_active' = BothConnected(StateAfterProbe(connection_state))
              /\ last' = Ran("port_registration_handler", <<>>, "both", TRUE,
                             HookCalled(StateAfterProbe(connection_state), device_active))
         ELSE /\ UNCHANGED <<connections, connection_state, device_active>>
              /\ last' = Ran("port_registration_handler", <<>>, "other", FALSE, "none")
    /\ UNCHANGED <<in_daw_mode, has_faders, Modes, ports_registered, crashed, output>>

Connect == \E own \in OwnedPorts : engine_connect(own)

Disconnect == \E own \in OwnedPorts : engine_disconnect(own)

ForeignEvent == \E yn \in BOOLEAN : engine_foreign(yn)

PortRegistered == \E probe \in BOOLEAN : port_registration_handler(probe)

EngineNext ==
    \/ Connect
    \/ Disconnect
    \/ ForeignEvent
    \/ PortRegistered

EngineSpec == Init /\ [][EngineNext]_vars

----------------------------------------------------------------------------
(* C31 *)

\* the connected bit of an owned port: 1 for the input, 2 for the output
BitSet(own) ==
    IF own = "input" THEN connection_state % 2 = 1
    ELSE (connection_state \div 2) % 2 = 1

\* the last handler served the removal of one connection of an owned port
\* that has another connection left
PartialDisconnect ==
    /\ last.op = "port_connection_handler"
    /\ last.arg \in OwnedPorts
    /\ ~last.yn
    /\ connections[last.arg] > 0

\* C31: when one of two connections of an owned port is removed, the port's
\* bit stays set and a surface that was active stays active
C31_PartialDisconnectKeepsActive ==
    PartialDisconnect =>
        /\ BitSet(last.arg)
        /\ last.pre.device_active => device_active

----------------------------------------------------------------------------
(* C32 *)

\* C32: a valid identification reply processed while in_daw_mode is already
\* true is answered like the first one: the enter pair 9F 0C 7F, 9F 0A 7F is
\* sent again, in_daw_mode stays true and the pad, pot and fader modes are
\* Session, Pan and Volume.
C32_RepeatedReplyReenters ==
    (Processed /\ EnvelopeOK(last.buf) /\ last.pre.in_daw_mode) =>
        /\ SentDuring = << <<159, 12, 127>>, <<159, 10, 127>> >>
        /\ in_daw_mode
        /\ current_pad_mode = "SESSION"
        /\ current_pot_mode = "PAN"
        /\ current_fader_mode = "VOLUME"

\* two valid replies in a row: the enter pair is in the output twice
C32_Witness ==
    /\ Processed /\ EnvelopeOK(last.buf) /\ last.pre.in_daw_mode
    /\ in_daw_mode
    /\ output = << <<159, 12, 127>>, <<159, 10, 127>>,
                   <<159, 12, 127>>, <<159, 10, 127>> >>

----------------------------------------------------------------------------
(* C33 *)

\* the tracks of the session: get_remote_nth_stripable (i, Track) answers for
\* exactly the indices below this number
TrackCount == Sessions[provider].tracks

\* C33: in every mode but the device mode the bindings are a prefix of the
\* track positions: their length is the number of tracks from index 0 on,
\* at most 8, whether or not a track has a control for the mode, and no index
\* from the first missing track on has a handle.
C33_BindingsArePrefixOfTracks ==
    _current_mode # 2 =>
        /\ Len(controllables) = (IF TrackCount < 8 THEN TrackCount ELSE 8)
        /\ \A i \in 0 .. 8 : i >= TrackCount => BindingAt(i) = NoHandle

\* a set on the session with two tracks was switched to Pan: two entries, a
\* null one for the first track, which has no pan control, and none after
C33_Witness ==
    /\ ModeSelectRan
    /\ provider = "few"
    /\ _current_mode = 3
    /\ Len(controllables) = 2
    /\ controllables[1] = NoHandle
    /\ controllables[2] = <<"pan", 1, 0>>

----------------------------------------------------------------------------
(* C34 *)

\* the last message was a touch or value message with the ninth controller of
\* the fader range, 0x35 + 8
NinthFaderRan ==
    /\ _faders
    /\ bank_last.op \in {"midi_cc_receiver_15", "midi_cc_receiver_16"}
    /\ bank_last.cc = 61

----------------------------------------------------------------------------
(* C35 *)

\* the controllers of the pot set: mode select 0x09 and 0x15..0x1C; those of
\* the fader set: mode select 0x0A and 0x35..0x3D
PotControllers == {9} \cup (21 .. 28)
FaderControllers == {10} \cup (53 .. 61)

\* this step is a receiver of the set running on a message that carries a
\* controller of the other set
OtherSetsMessageStep ==
    /\ bank_last'.op \in {"midi_cc_receiver_15", "midi_cc_receiver_16"}
    /\ bank_last'.cc \in (IF _faders THEN PotControllers ELSE FaderControllers)

\* C35: a CC message changes at most one of the two sets: a message with a
\* controller of the pot set (0x09, 0x15..0x1C) leaves the mode, the bindings
\* and the handles of a fader set as they are, and a message with a controller
\* of the fader set (0x0A, 0x35..0x3D) those of a pot set; the set the message
\* is not for makes no call.
C35_OtherSetUntouched ==
    [][OtherSetsMessageStep =>
          /\ bank_last'.dispatch.fn = "none"
          /\ bank_last'.calls = <<>>
          /\ UNCHANGED <<_faders, _current_mode, controllables, provider, touched>>]_vars

\* the mode-select message of the pot set, asking for Pan, reached a fader
\* set that holds a control touched: the fader set is in Volume as before
C35_Witness ==
    /\ _faders
    /\ bank_last.op = "midi_cc_receiver_16"
    /\ bank_last.cc = 9
    /\ bank_last.val = 3
    /\ bank_last.dispatch.fn = "none"
    /\ _current_mode = 1
    /\ touched # {}

----------------------------------------------------------------------------
(* RangeControllable: the helper for a single pot or fader *)

\* pot_mode_switch: controllable_mode_connection.disconnect (), then the slot
\* the switch connects; the custom modes, and a value without a case, connect none
SlotOfMode(mode) ==
    CASE mode = 1 -> "new_value_volume"
      [] mode = 2 -> "new_value_device"
      [] mode = 3 -> "new_value_pan"
      [] mode = 4 -> "new_value_send_a"
      [] mode = 5 -> "new_value_send_b"
      [] OTHER -> "none"

\* which branch of the if / else if chain a controller takes
SwitchOf(fader, cc) ==
    IF ~fader /\ cc = 9 THEN "pot_mode_switch"
    ELSE IF fader /\ cc = 10 THEN "fader_mode_switch"
    ELSE "none"

\* the only return before new_value_received (tb->value): no mode switch and
\* not our CC
ReturnsEarly(fader, own, cc) == SwitchOf(fader, cc) = "none" /\ cc # own

\* RangeControllable::midi_cc_receiver: the mode switch, if any, and then, in
\* all cases but the early return, the signal new_value_received with the
\* value of the message; fader_mode_switch changes nothing
midi_cc_receiver(cc, val) ==
    LET switch == SwitchOf(_fader, cc)
        slot == IF switch = "pot_mode_switch" THEN SlotOfMode(ModeOfValue(val))
                ELSE controllable_mode_connection
        emitted == ~ReturnsEarly(_fader, _cc, cc)
    IN  /\ controllable_mode_connection' = slot
        /\ controllable_last' = [op |-> "midi_cc_receiver", cc |-> cc, val |-> val,
                                 switch |-> switch,
                                 mode |-> IF switch = "none" THEN 0 ELSE ModeOfValue(val),
                                 emitted |-> emitted,
                                 slot |-> IF emitted THEN slot ELSE "none"]
        /\ UNCHANGED <<_cc, _fader>>
        /\ UNCHANGED <<SessionVars, BankVars, EngineVars>>

\* the controllers sent to the helper: both mode-select controllers, the first
\* and second pot, the first fader
HelperCcs == {9, 10, 21, 22, 53}

\* a control change on MIDI channel 16
HelperMessage == \E cc \in HelperCcs, val \in ModeValues \cup {127} : midi_cc_receiver(cc, val)

\* a set of pots with the helper of its first pot, or a set of faders with the
\* helper of its first fader
ControllableInit ==
    /\ SurfaceInit
    /\ Constructed(BOOLEAN, {"few"})
    /\ RangeControllable_Constructed({21, 53}, BOOLEAN)
    /\ _fader = _faders
    /\ _cc = StartingCc(_fader)

ControllableNext ==
    \/ HelperMessage
    \/ ModeSelected

ControllableSpec == ControllableInit /\ [][ControllableNext]_vars

----------------------------------------------------------------------------
(* C36 *)

\* the last message the helper received was its mode-select message: 0x09 for
\* a pot, 0x0A for a fader
HelperModeSelectRan ==
    /\ controllable_last.op = "midi_cc_receiver"
    /\ \/ ~_fader /\ controllable_last.cc = 9
       \/ _fader /\ controllable_last.cc = 10

\* C36: a mode-select message on the value channel gives a mode switch and
\* nothing else: it is not handed on as a value update or a touch as well, by
\* the set or by the helper of a single control: the set makes no call on a
\* control and the helper calls no new_value slot with the payload.
C36_ModeSelectOnlySwitches ==
    /\ ModeSelectRan =>
          /\ bank_last.dispatch.fn = "mode_switch"
          /\ bank_last.calls = <<>>
    /\ HelperModeSelectRan =>
          /\ controllable_last.switch # "none"
          /\ controllable_last.slot = "none"

----------------------------------------------------------------------------
(* C37 *)

\* Custom0 .. Custom3, by enum value
CustomModes == 6 .. 9

\* C37: while the set is in a custom mode every entry of the bindings is a null
\* handle, and a touch or value message received in that mode makes no call:
\* no start_touch, no stop_touch, no set_value.
C37_CustomModesUnbound ==
    _current_mode \in CustomModes =>
        /\ \A i \in 0 .. 8 : BindingAt(i) = NoHandle
        /\ (TouchRan \/ ValueRan) => bank_last.calls = <<>>

\* a set on the session with nine tracks is in Custom0, holds eight null
\* entries, and a value message for its first control made no call
C37_Witness ==
    /\ _current_mode = 6
    /\ provider = "many"
    /\ Len(controllables) = 8
    /\ ValueRan
    /\ bank_last.dispatch.id = 0
    /\ bank_last.val = 127
    /\ bank_last.calls = <<>>

====
